---- MODULE Spec2Model ----
(***************************************************************************)
(* Model of dashboard/dashboard_builder.py: the _ResultHolder index built  *)
(* from the compatibility store's results and its queries get_result,      *)
(* has_issues, has_deprecated_deps, needs_update and get_statistics.       *)
(*                                                                         *)
(* A package.Package is represented by its install name (packages compare  *)
(* and hash by install name).  A Python exception leaving a method is the  *)
(* outcome [exc |-> "KeyError"]; a normal return is [exc |-> "none"].      *)
(***************************************************************************)
EXTENDS Integers, Sequences, FiniteSets, TLC

VARIABLES requested, package_to_results, pairwise_to_results,
          deprecated_deps, call, ret

vars == <<requested, package_to_results, pairwise_to_results,
          deprecated_deps, call, ret>>

(* ------------------------------ bounds -------------------------------- *)

\* Total number of CompatibilityResult records the store supplies.
MaxResults == 3
\* Length of the package list handed to get_statistics.
MaxStatPackages == 2
\* Number of requested keys an arbitrary (non-store) mapping may lack.
MaxAbsent == 1

(* ----------------------- external collaborators ----------------------- *)

\* configs.PKG_LIST: the configured package catalog.
PKG_LIST == {"pkgA", "pkgB"}

\* configs.PKG_PY_VERSION_NOT_SUPPORTED: install names known not to support
\* a Python major version.
PKG_PY_VERSION_NOT_SUPPORTED == [version \in {2, 3} |->
    IF version = 2 THEN {"pkgB"} ELSE {}]

\* compatibility_store.Status: the enumeration's values (value = name).
Status == {"UNKNOWN", "SUCCESS", "INSTALL_ERROR", "CHECK_WARNING"}

\* str.lower() on the status values.
Lower(s) ==
    CASE s = "UNKNOWN" -> "unknown"
      [] s = "SUCCESS" -> "success"
      [] s = "INSTALL_ERROR" -> "install_error"
      [] s = "CHECK_WARNING" -> "check_warning"

\* The details of a result: a string or None.
Details(status) == IF status = "SUCCESS" THEN "None" ELSE "log"

\* The recorded outcomes a test run may have (without the packages involved).
\* The Python version is read only to exclude a result, so the outcomes
\* other than INSTALL_ERROR are drawn for version 2, where pkgB is listed.
Outcomes == {o \in [status : Status, python_major_version : {2, 3}] :
                o.status # "INSTALL_ERROR" => o.python_major_version = 2}

\* deprecated_dep_finder.DeprecatedDepFinder.get_deprecated_deps(): per
\* catalog package, the deprecated dependencies found for it.
FinderDeps == [pkg_name \in PKG_LIST |->
    IF pkg_name = "pkgA" THEN <<"dep">> ELSE <<>>]

\* compatibility_store.CompatibilityResult for the packages of one index key.
CompatibilityResult(packages, o) ==
    [packages |-> packages, status |-> o.status,
     python_major_version |-> o.python_major_version,
     details |-> Details(o.status)]

(* --------------------------- Python values ---------------------------- *)

Return(v) == [exc |-> "none", value |-> v]
KeyError == [exc |-> "KeyError", value |-> "KeyError"]

\* bool(v) for the values needs_update and has_deprecated_deps return.
Truthy(v) == v = "True"
PyBool(b) == IF b THEN "True" ELSE "False"

\* A dict of the result lists; NoDetails marks a dict without 'details'.
NoDetails == "<no key>"
Entry(status, self, details) ==
    [status |-> status, self |-> self, details |-> details]

SELF_SUCCESS == Entry("SUCCESS", TRUE, NoDetails)

(* ---------------------------- _ResultHolder ---------------------------- *)

\* Mutant: the name is looked up without matching the recorded version.
_is_py_version_incompatible_AnyVersion(result) ==
    /\ result.status = "INSTALL_ERROR"
    /\ \E version \in {2, 3} : \E pkg \in result.packages :
          pkg \in PKG_PY_VERSION_NOT_SUPPORTED[version]

_is_py_version_incompatible(result) ==
    /\ result.status = "INSTALL_ERROR"
    /\ \E version \in {2, 3} : \E pkg \in result.packages :
          /\ result.python_major_version = version
          /\ pkg \in PKG_PY_VERSION_NOT_SUPPORTED[version]

\* Mutant: the scan forgets the test for SUCCESS.
IsReported_NoSuccessTest(pr) ==
    ~ _is_py_version_incompatible(pr)

\* The condition of both scans: the result is appended to the check.
IsReported(pr) ==
    ~ _is_py_version_incompatible(pr) /\ pr.status # "SUCCESS"

\* The entries a scan appends for a list of results.
ScanEntries(results, self) ==
    LET f == SelectSeq(results, IsReported)
    IN  [i \in 1..Len(f) |-> Entry(f[i].status, self, f[i].details)]

\* status_type after a scan that started with status_type = tag.
ScanStatusType(results, prefix, tag) ==
    LET f == SelectSeq(results, IsReported)
    IN  IF f = <<>> THEN tag ELSE prefix \o Lower(f[Len(f)].status)

\* Mutant: 'and' for 'or'.
SelfUnknown_Both(package_1, package_2) ==
    /\ package_to_results[package_1] = <<>>
    /\ package_to_results[package_2] = <<>>

\* Lines 177-178: the unknown condition on the two self lists.
SelfUnknown(package_1, package_2) ==
    \/ package_to_results[package_1] = <<>>
    \/ package_to_results[package_2] = <<>>

\* Mutant: only the first package's results are scanned.
PackageResults_FirstOnly(package_1, package_2) ==
    package_to_results[package_1]

\* Mutant: a package classified against itself is scanned once.
PackageResults_SelfOnce(package_1, package_2) ==
    IF package_1 = package_2 THEN package_to_results[package_1]
    ELSE package_to_results[package_1] \o package_to_results[package_2]

\* Lines 187-189: the concatenated self results.
PackageResults(package_1, package_2) ==
    package_to_results[package_1] \o package_to_results[package_2]

\* Lines 173-210: self_result and status_type before the pairwise branch.
SelfPart(package_1, package_2) ==
    LET unknown == SelfUnknown(package_1, package_2)
        first == IF unknown THEN <<Entry("UNKNOWN", TRUE, NoDetails)>>
                 ELSE <<>>
        tag == IF unknown THEN "self-unknown" ELSE "self-success"
        package_results == PackageResults(package_1, package_2)
    IN  [self_result |-> first \o ScanEntries(package_results, TRUE),
         status_type |-> ScanStatusType(package_results, "self-", tag)]

\* Mutant: the upgrade to 'pairwise-success' is unconditional.
PairPart_AlwaysUpgrade(pairwise_results, status_type) ==
    LET first == IF pairwise_results = <<>>
                 THEN <<Entry("UNKNOWN", FALSE, NoDetails)>> ELSE <<>>
        tag == IF pairwise_results = <<>> THEN "pairwise-unknown"
               ELSE status_type
        pair_result == first \o ScanEntries(pairwise_results, FALSE)
        scanned == ScanStatusType(pairwise_results, "pairwise-", tag)
    IN  IF pair_result = <<>>
        THEN [pair_result |-> <<Entry("SUCCESS", FALSE, NoDetails)>>,
              status_type |-> "pairwise-success"]
        ELSE [pair_result |-> pair_result, status_type |-> scanned]

\* Mutant: an empty pairwise list is not flagged unknown.
PairPart_NoUnknown(pairwise_results, status_type) ==
    LET pair_result == ScanEntries(pairwise_results, FALSE)
        scanned == ScanStatusType(pairwise_results, "pairwise-", status_type)
    IN  IF pair_result = <<>>
        THEN [pair_result |-> <<Entry("SUCCESS", FALSE, NoDetails)>>,
              status_type |-> IF scanned = "self-success"
                              THEN "pairwise-success" ELSE scanned]
        ELSE [pair_result |-> pair_result, status_type |-> scanned]

\* Lines 212-242: pair_result and status_type of the pairwise branch.
PairPart(pairwise_results, status_type) ==
    LET first == IF pairwise_results = <<>>
                 THEN <<Entry("UNKNOWN", FALSE, NoDetails)>> ELSE <<>>
        tag == IF pairwise_results = <<>> THEN "pairwise-unknown"
               ELSE status_type
        pair_result == first \o ScanEntries(pairwise_results, FALSE)
        scanned == ScanStatusType(pairwise_results, "pairwise-", tag)
    IN  IF pair_result = <<>>
        THEN [pair_result |-> <<Entry("SUCCESS", FALSE, NoDetails)>>,
              \* Line 241 compares with 'is'.  status_type is then either
              \* the object of the literal of line 175 or a string built
              \* at line 201, which is never equal to 'self-success' (a
              \* SUCCESS result is not reported); equal literals of one
              \* function are one constant, so 'is' decides as equality.
              status_type |-> IF scanned = "self-success"
                              THEN "pairwise-success" ELSE scanned]
        ELSE [pair_result |-> pair_result, status_type |-> scanned]

get_result(package_1, package_2) ==
    IF \/ package_1 \notin DOMAIN package_to_results
       \/ package_2 \notin DOMAIN package_to_results
    THEN KeyError
    ELSE LET s == SelfPart(package_1, package_2)
         IN  IF package_1 = package_2
             THEN Return(
                    [status_type |-> s.status_type,
                     self_compatibility_check |->
                        IF s.self_result = <<>>
                        THEN <<Entry("SUCCESS", TRUE, NoDetails)>>
                        ELSE s.self_result,
                     pairwise_compatibility_check |-> <<>>])
             ELSE IF {package_1, package_2} \notin DOMAIN pairwise_to_results
             THEN KeyError
             ELSE LET p == PairPart(
                            pairwise_to_results[{package_1, package_2}],
                            s.status_type)
                  IN  Return(
                        [status_type |-> p.status_type,
                         self_compatibility_check |-> s.self_result,
                         pairwise_compatibility_check |-> p.pair_result])

Range(seq) == {seq[i] : i \in DOMAIN seq}

\* Mutant: the self conflict of package_2 is never detected.
Package2SelfConflict_Never(package_2) == FALSE

\* Lines 94-98: package_2 has a self conflict.
Package2SelfConflict(package_2) ==
    SELF_SUCCESS \notin
        Range(get_result(package_2, package_2).value.self_compatibility_check)

\* Lines 99-104: the inner loop returns True.
PairReportsIssue(pair_res, package_2_self_conflict) ==
    \E i \in DOMAIN pair_res :
        ~ package_2_self_conflict /\ pair_res[i].status # "SUCCESS"

\* The loop of has_issues from position i of the key order.
RECURSIVE HasIssuesFrom(_, _, _)
HasIssuesFrom(p, keys, i) ==
    IF i > Len(keys) THEN Return("False")
    ELSE LET package_2 == keys[i]
             p_and_package_2_result == get_result(p, package_2)
         IN  IF p_and_package_2_result.exc # "none" THEN KeyError
             ELSE IF PairReportsIssue(
                        p_and_package_2_result.value
                            .pairwise_compatibility_check,
                        Package2SelfConflict(package_2))
             THEN Return("True")
             ELSE HasIssuesFrom(p, keys, i + 1)

\* keys: the iteration order of self._package_to_results.keys().
has_issues(p, keys) == HasIssuesFrom(p, keys, 1)

\* found: per catalog package the deps the finder yields for it.
get_deprecated_deps(found) ==
    [pkg_name \in DOMAIN found |-> <<found[pkg_name], found[pkg_name] # <<>>>>]

has_deprecated_deps(p) ==
    IF p \in DOMAIN deprecated_deps
    THEN Return(PyBool(deprecated_deps[p][2]))
    ELSE KeyError

\* Mutant: the unimplemented check answers True.
needs_update_True(p) == Return("True")

\* The body is 'pass': the method returns None.
needs_update(p) == Return("None")

\* The loop of get_statistics from position i, with the counters so far.
RECURSIVE StatisticsFrom(_, _, _, _)
StatisticsFrom(packages, keys, i, acc) ==
    IF i > Len(packages) THEN Return(acc)
    ELSE LET pkg == packages[i]
             issues == has_issues(pkg, keys)
             deps == has_deprecated_deps(pkg)
             update == needs_update(pkg)
         IN  IF issues.exc # "none" \/ deps.exc # "none" THEN KeyError
             ELSE StatisticsFrom(packages, keys, i + 1,
                    [total_packages |-> acc.total_packages,
                     total_have_conflicts |-> acc.total_have_conflicts
                        + (IF Truthy(issues.value) THEN 1 ELSE 0),
                     total_have_deprecated_deps |->
                        acc.total_have_deprecated_deps
                        + (IF Truthy(deps.value) THEN 1 ELSE 0),
                     total_needs_update |-> acc.total_needs_update
                        + (IF Truthy(update.value) THEN 1 ELSE 0)])

get_statistics(packages, keys) ==
    StatisticsFrom(packages, keys, 1,
        [total_packages |-> Cardinality(PKG_LIST),
         total_have_conflicts |-> 0,
         total_have_deprecated_deps |-> 0,
         total_needs_update |-> 0])

(* ------------------------------- inputs -------------------------------- *)

\* An index key: {p} for a self list, {p, q} for a pairwise list.
Keys(S) == {{p, q} : p, q \in S}

\* The orders in which a dict with the given key set may iterate.
KeyOrders(S) ==
    {o \in [1..Cardinality(S) -> S] : \A i, j \in DOMAIN o : o[i] = o[j] => i = j}

SetToSeq(S) == CHOOSE o \in KeyOrders(S) : TRUE

RECURSIVE SumLen(_, _)
SumLen(lens, S) ==
    IF S = {} THEN 0
    ELSE LET k == CHOOSE x \in S : TRUE IN lens[k] + SumLen(lens, S \ {k})

\* The number of records before position i of the key order.
RECURSIVE Offset(_, _, _)
Offset(lens, order, i) ==
    IF i = 1 THEN 0 ELSE lens[order[i - 1]] + Offset(lens, order, i - 1)

PositionOf(order, k) == CHOOSE i \in DOMAIN order : order[i] = k

\* The result list of key k when the records 'flat' are dealt out by 'lens'.
ListOf(k, present, lens, flat) ==
    LET order == SetToSeq(present)
        off == Offset(lens, order, PositionOf(order, k))
    IN  [i \in 1..lens[k] |-> CompatibilityResult(k, flat[off + i])]

\* The index over the key set 'present' holding the records 'flat'.
IndexInit(present, lens, flat) ==
    /\ package_to_results =
          [p \in {q \in PKG_LIST : {q} \in present} |->
              ListOf({p}, present, lens, flat)]
    /\ pairwise_to_results =
          [k \in {kk \in present : Cardinality(kk) = 2} |->
              ListOf(k, present, lens, flat)]

NoCall == [op |-> "none", package_1 |-> "", package_2 |-> "", packages |-> <<>>]

\* The state after _ResultHolder.__init__ on mappings with the keys 'present'.
InitWith(req, present) ==
    /\ requested = req
    /\ \E lens \in {l \in [present -> 0..MaxResults] :
                        SumLen(l, present) <= MaxResults} :
         \E flat \in [1..SumLen(lens, present) -> Outcomes] :
            IndexInit(present, lens, flat)
    /\ deprecated_deps = get_deprecated_deps(FinderDeps)
    /\ call = NoCall
    /\ ret = Return("None")

\* main(): the store returns a list for every requested package and pair.
Init ==
    \E req \in SUBSET PKG_LIST \ {{}} : InitWith(req, Keys(req))

\* _ResultHolder built on arbitrary mappings: requested keys may be absent.
InitAnyIndex ==
    \E req \in SUBSET PKG_LIST \ {{}} :
      \E present \in SUBSET Keys(req) :
         /\ Cardinality(Keys(req) \ present) <= MaxAbsent
         /\ InitWith(req, present)

(* ------------------------------- actions ------------------------------- *)

\* No method assigns to self after __init__ (lines 64-68), and a query keeps
\* nothing between calls: a behaviour is the construction and one query.
Idle == call.op = "none"

Frozen == UNCHANGED <<requested, package_to_results, pairwise_to_results,
                      deprecated_deps>>

GetResult ==
    /\ Idle
    /\ \E package_1, package_2 \in PKG_LIST :
        /\ call' = [NoCall EXCEPT !.op = "get_result",
                        !.package_1 = package_1, !.package_2 = package_2]
        /\ ret' = get_result(package_1, package_2)
        /\ Frozen

HasIssues ==
    /\ Idle
    /\ \E p \in PKG_LIST :
      \E keys \in KeyOrders(DOMAIN package_to_results) :
        /\ call' = [NoCall EXCEPT !.op = "has_issues", !.package_1 = p]
        /\ ret' = has_issues(p, keys)
        /\ Frozen

HasDeprecatedDeps ==
    /\ Idle
    /\ \E p \in PKG_LIST :
        /\ call' = [NoCall EXCEPT !.op = "has_deprecated_deps",
                        !.package_1 = p]
        /\ ret' = has_deprecated_deps(p)
        /\ Frozen

NeedsUpdate ==
    /\ Idle
    /\ \E p \in PKG_LIST :
        /\ call' = [NoCall EXCEPT !.op = "needs_update", !.package_1 = p]
        /\ ret' = needs_update(p)
        /\ Frozen

GetStatistics ==
    /\ Idle
    /\ \E n \in 0..MaxStatPackages :
      \E packages \in [1..n -> PKG_LIST] :
        \E keys \in KeyOrders(DOMAIN package_to_results) :
          /\ call' = [NoCall EXCEPT !.op = "get_statistics",
                          !.packages = packages]
          /\ ret' = get_statistics(packages, keys)
          /\ Frozen

Next ==
    \/ GetResult
    \/ HasIssues
    \/ HasDeprecatedDeps
    \/ NeedsUpdate
    \/ GetStatistics

Spec == Init /\ [][Next]_vars

SpecAnyIndex == InitAnyIndex /\ [][Next]_vars

(* ------------------------------- claims -------------------------------- *)

\* A get_result call on two indexed packages has returned.
Classified ==
    /\ call.op = "get_result"
    /\ call.package_1 \in requested
    /\ call.package_2 \in requested
    /\ ret.exc = "none"

StatusSet(check) == {check[i].status : i \in DOMAIN check}

\* The exclusion rule as the specification words it: an INSTALL_ERROR whose
\* recorded major version is 2 or 3 and lists one of its packages.
KnownVersionIncompatibility(r) ==
    /\ r.status = "INSTALL_ERROR"
    /\ r.python_major_version \in {2, 3}
    /\ r.packages \cap PKG_PY_VERSION_NOT_SUPPORTED[r.python_major_version] # {}

Failure(r) == r.status # "SUCCESS" /\ ~ KnownVersionIncompatibility(r)

\* The failures of a list, in order.
Failures(results) == SelectSeq(results, Failure)

\* The entries of a check that report a result (they carry its details).
HasDetails(e) == e.details # NoDetails
Reports(check) == SelectSeq(check, HasDetails)

SelfLists(p1, p2) == package_to_results[p1] \o package_to_results[p2]
PairList(p1, p2) == pairwise_to_results[{p1, p2}]

\* C1: classification is symmetric: get_result(p1, p2) and get_result(p2, p1)
\* have the same pairwise_compatibility_check and the same set of statuses in
\* self_compatibility_check.
C1_Symmetric ==
    Classified =>
        LET swapped == get_result(call.package_2, call.package_1)
        IN  /\ swapped.exc = "none"
            /\ swapped.value.pairwise_compatibility_check =
                  ret.value.pairwise_compatibility_check
            /\ StatusSet(swapped.value.self_compatibility_check) =
                  StatusSet(ret.value.self_compatibility_check)

\* C1 witness: two packages with different failures, so the two orders give
\* different self checks, and a pairwise failure.
C1_Witness ==
    /\ Classified
    /\ call.package_1 # call.package_2
    /\ get_result(call.package_2, call.package_1).value
          .self_compatibility_check # ret.value.self_compatibility_check
    /\ Reports(ret.value.pairwise_compatibility_check) # <<>>

\* q can be blamed for a failure with pkg: the classification of the pair has
\* a non-SUCCESS pairwise entry and q's own classification has SELF_SUCCESS.
C2_Blames(pkg, q) ==
    /\ \E i \in DOMAIN get_result(pkg, q).value.pairwise_compatibility_check :
          get_result(pkg, q).value.pairwise_compatibility_check[i].status
              # "SUCCESS"
    /\ SELF_SUCCESS \in
          Range(get_result(q, q).value.self_compatibility_check)

KeysPresent(p1, p2) ==
    /\ p1 \in DOMAIN package_to_results
    /\ p2 \in DOMAIN package_to_results
    /\ p1 # p2 => {p1, p2} \in DOMAIN pairwise_to_results

\* C3 as stated: get_result on requested packages never raises, and a list
\* absent from the index classifies as an empty one: an UNKNOWN entry.
C3_AbsentIsUnknown ==
    (/\ call.op = "get_result"
     /\ call.package_1 \in requested
     /\ call.package_2 \in requested) =>
        /\ ret.exc = "none"
        /\ (\E p \in {call.package_1, call.package_2} :
                p \notin DOMAIN package_to_results)
              => "UNKNOWN" \in StatusSet(ret.value.self_compatibility_check)
        /\ (/\ call.package_1 # call.package_2
            /\ {call.package_1, call.package_2}
                  \notin DOMAIN pairwise_to_results)
              => ret.value.pairwise_compatibility_check =
                    <<Entry("UNKNOWN", FALSE, NoDetails)>>

\* C3 amended: get_result on requested packages raises KeyError exactly when
\* a list it looks up is absent from the index; a list that is present and
\* empty classifies as UNKNOWN: an empty self list gives the leading self
\* entry UNKNOWN, an empty pairwise list gives the single pairwise entry
\* UNKNOWN and status_type 'pairwise-unknown'.
C3_EmptyIsUnknown ==
    (/\ call.op = "get_result"
     /\ call.package_1 \in requested
     /\ call.package_2 \in requested) =>
        /\ ret.exc = "KeyError" <=>
              ~ KeysPresent(call.package_1, call.package_2)
        /\ ret.exc = "none" =>
            /\ (\E p \in {call.package_1, call.package_2} :
                    package_to_results[p] = <<>>)
                  => ret.value.self_compatibility_check[1] =
                        Entry("UNKNOWN", TRUE, NoDetails)
            /\ (/\ call.package_1 # call.package_2
                /\ PairList(call.package_1, call.package_2) = <<>>)
                  => /\ ret.value.pairwise_compatibility_check =
                          <<Entry("UNKNOWN", FALSE, NoDetails)>>
                     /\ ret.value.status_type = "pairwise-unknown"

\* C3 witness: a classification of two packages with empty lists.
C3_Witness ==
    /\ Classified
    /\ call.package_1 # call.package_2
    /\ package_to_results[call.package_2] = <<>>
    /\ PairList(call.package_1, call.package_2) = <<>>
    /\ ret.value.status_type = "pairwise-unknown"

\* The entries that report the failures of a list.
ExpectedReports(results, self) ==
    [i \in 1..Len(Failures(results)) |->
        Entry(Failures(results)[i].status, self, Failures(results)[i].details)]

\* The status a tag names after its 'self-' or 'pairwise-' prefix.
TagOf(prefix, statuses) == {prefix \o Lower(st) : st \in statuses}

\* C4: a known Python-version incompatibility adds no entry to either check
\* and never sets status_type; every other non-SUCCESS result is reported,
\* in both the self scan and the pairwise scan.
C4_Exclusion ==
    Classified =>
        LET p1 == call.package_1
            p2 == call.package_2
            selfs == SelfLists(p1, p2)
            pairs == IF p1 = p2 THEN <<>> ELSE PairList(p1, p2)
        IN  /\ Reports(ret.value.self_compatibility_check) =
                  ExpectedReports(selfs, TRUE)
            /\ Reports(ret.value.pairwise_compatibility_check) =
                  ExpectedReports(pairs, FALSE)
            /\ ret.value.status_type \in
                  {"self-success", "self-unknown",
                   "pairwise-success", "pairwise-unknown"}
                  \cup TagOf("self-", StatusSet(Failures(selfs)))
                  \cup TagOf("pairwise-", StatusSet(Failures(pairs)))

\* C4 witness: the self scan meets only an excluded result and reports
\* nothing; the pairwise scan meets an excluded result and reports another.
C4_Witness ==
    /\ Classified
    /\ call.package_1 # call.package_2
    /\ \E i \in DOMAIN SelfLists(call.package_1, call.package_2) :
          KnownVersionIncompatibility(
              SelfLists(call.package_1, call.package_2)[i])
    /\ Reports(ret.value.self_compatibility_check) = <<>>
    /\ \E i \in DOMAIN PairList(call.package_1, call.package_2) :
          KnownVersionIncompatibility(
              PairList(call.package_1, call.package_2)[i])
    /\ Len(Reports(ret.value.pairwise_compatibility_check)) = 1

\* The case of C5: distinct packages, the first with self results that all
\* succeeded, the second with none, and no pairwise results.
C5_Case ==
    /\ Classified
    /\ call.package_1 # call.package_2
    /\ package_to_results[call.package_1] # <<>>
    /\ \A i \in DOMAIN package_to_results[call.package_1] :
          package_to_results[call.package_1][i].status = "SUCCESS"
    /\ package_to_results[call.package_2] = <<>>
    /\ PairList(call.package_1, call.package_2) = <<>>

\* C5 as stated: the pairwise entry is UNKNOWN, status_type is
\* 'pairwise-unknown', and no self-level UNKNOWN entry is recorded.
C5_NoSelfUnknown ==
    C5_Case =>
        /\ ret.value.pairwise_compatibility_check =
              <<Entry("UNKNOWN", FALSE, NoDetails)>>
        /\ ret.value.status_type = "pairwise-unknown"
        /\ "UNKNOWN" \notin StatusSet(ret.value.self_compatibility_check)

\* C5 amended: the pairwise entry is UNKNOWN and status_type is
\* 'pairwise-unknown', and the self check is the single self-level UNKNOWN
\* entry: the unknown step fires when either self list is empty.
C5_SelfUnknownRecorded ==
    C5_Case =>
        /\ ret.value.pairwise_compatibility_check =
              <<Entry("UNKNOWN", FALSE, NoDetails)>>
        /\ ret.value.status_type = "pairwise-unknown"
        /\ ret.value.self_compatibility_check =
              <<Entry("UNKNOWN", TRUE, NoDetails)>>

\* C5 witness: the case with two SUCCESS results of the first package.
C5_Witness ==
    /\ C5_Case
    /\ Len(package_to_results[call.package_1]) >= 2

\* The case of C6: a package against itself, all its results SUCCESS.
C6_Case ==
    /\ Classified
    /\ call.package_1 = call.package_2
    /\ package_to_results[call.package_1] # <<>>
    /\ \A i \in DOMAIN package_to_results[call.package_1] :
          package_to_results[call.package_1][i].status = "SUCCESS"

\* C6: a package whose self results are all SUCCESS classifies against
\* itself as one self entry SUCCESS, no pairwise entry, 'self-success'.
C6_SelfSuccess ==
    C6_Case =>
        /\ ret.value.self_compatibility_check =
              <<Entry("SUCCESS", TRUE, NoDetails)>>
        /\ ret.value.pairwise_compatibility_check = <<>>
        /\ ret.value.status_type = "self-success"

\* C6 witness: the case with more than one SUCCESS result.
C6_Witness ==
    /\ C6_Case
    /\ Len(package_to_results[call.package_1]) >= 2

\* C7: has_issues(p) is true when p's own self results contain a failure
\* (self compatibility is one of the issues checked).
C7_SelfIssueReported ==
    (/\ call.op = "has_issues"
     /\ call.package_1 \in requested
     /\ ret.exc = "none"
     /\ Failures(package_to_results[call.package_1]) # <<>>)
        => ret.value = "True"

\* The number of positions of a list that satisfy a flag.
CountTrue(packages, flag(_)) ==
    Cardinality({i \in DOMAIN packages : flag(packages[i])})

\* C8: get_statistics over indexed packages returns counters between 0 and
\* len(packages), each the number of given packages with has_issues,
\* has_deprecated_deps and needs_update, and needingUpdate is 0.
C8_Statistics ==
    (/\ call.op = "get_statistics"
     /\ \A i \in DOMAIN call.packages : call.packages[i] \in requested) =>
        LET keys == SetToSeq(DOMAIN package_to_results)
            issues(p) == has_issues(p, keys).value = "True"
            deps(p) == has_deprecated_deps(p).value = "True"
            n == Len(call.packages)
        IN  /\ ret.exc = "none"
            /\ ret.value.total_have_conflicts \in 0..n
            /\ ret.value.total_have_deprecated_deps \in 0..n
            /\ ret.value.total_needs_update \in 0..n
            /\ ret.value.total_have_conflicts =
                  CountTrue(call.packages, issues)
            /\ ret.value.total_have_deprecated_deps =
                  CountTrue(call.packages, deps)
            /\ ret.value.total_needs_update = 0

\* C8 witness: two packages counted, one with issues and one with
\* deprecated dependencies, not all of them.
C8_Witness ==
    /\ call.op = "get_statistics"
    /\ \A i \in DOMAIN call.packages : call.packages[i] \in requested
    /\ Len(call.packages) = 2
    /\ ret.value.total_have_conflicts = 1
    /\ ret.value.total_have_deprecated_deps = 1

\* The tag of the last failure of a list.
LastTag(prefix, results) ==
    prefix \o Lower(Failures(results)[Len(Failures(results))].status)

\* status_type as C9 words it.
C9_StatusType(p1, p2) ==
    IF p1 # p2 /\ Failures(PairList(p1, p2)) # <<>>
    THEN LastTag("pairwise-", PairList(p1, p2))
    ELSE IF p1 # p2 /\ PairList(p1, p2) = <<>>
    THEN "pairwise-unknown"
    ELSE IF Failures(SelfLists(p1, p2)) # <<>>
    THEN LastTag("self-", SelfLists(p1, p2))
    ELSE IF package_to_results[p1] = <<>> \/ package_to_results[p2] = <<>>
    THEN "self-unknown"
    ELSE IF p1 # p2 THEN "pairwise-success"
    ELSE "self-success"

\* C9: status_type is the tag of the last write in the scan order unknown,
\* self scan (p1's results then p2's), pairwise scan; the upgrade to
\* 'pairwise-success' happens only when no self-level issue was recorded.
C9_LastWriteWins ==
    Classified =>
        ret.value.status_type = C9_StatusType(call.package_1, call.package_2)

\* C9 witness: the pair installs fine but a self failure keeps its tag, the
\* last of two failures.
C9_Witness ==
    /\ Classified
    /\ call.package_1 # call.package_2
    /\ PairList(call.package_1, call.package_2) # <<>>
    /\ Failures(PairList(call.package_1, call.package_2)) = <<>>
    /\ Len(Failures(SelfLists(call.package_1, call.package_2))) = 2
    /\ Failures(SelfLists(call.package_1, call.package_2))[1].status #
          Failures(SelfLists(call.package_1, call.package_2))[2].status
    /\ ret.value.status_type =
          LastTag("self-", SelfLists(call.package_1, call.package_2))

\* C10: a package with k failures classifies against itself with 2k
\* reporting entries, after one leading UNKNOWN entry only when its list is
\* empty; the self check has exactly one entry only when k = 0.
C10_SelfReportedTwice ==
    (Classified /\ call.package_1 = call.package_2) =>
        LET results == package_to_results[call.package_1]
            k == Len(Failures(results))
            check == ret.value.self_compatibility_check
        IN  /\ Len(Reports(check)) = 2 * k
            /\ Reports(check) = ExpectedReports(results, TRUE)
                                  \o ExpectedReports(results, TRUE)
            /\ Len(check) = 2 * k + (IF results = <<>> \/ k = 0 THEN 1 ELSE 0)
            /\ results = <<>> <=> check[1] = Entry("UNKNOWN", TRUE, NoDetails)
            /\ Len(check) = 1 <=> k = 0

\* C10 witness: a package with two failures classified against itself.
C10_Witness ==
    /\ Classified
    /\ call.package_1 = call.package_2
    /\ Len(Failures(package_to_results[call.package_1])) = 2
    /\ Len(ret.value.self_compatibility_check) = 4

====
